---- MODULE Spec2Model ----
(***************************************************************************)
(* A model of mm.c: a segregated-free-list allocator with boundary tags.   *)
(*                                                                         *)
(* The heap is a word-addressed memory.  Only words that some store has    *)
(* written are in DOMAIN mem; a load of any other word (uninitialised      *)
(* payload, the word past the heap end) yields a value chosen by the       *)
(* environment (h.junk).  A load or store outside the region obtained from *)
(* mem_sbrk, [HeapBase, brk), sets h.fault; such a store does not land in  *)
(* the heap.  An operation that faulted either kills the process ("segv")  *)
(* or completes with the stray access having hit memory outside the heap   *)
(* ("ub"); behaviour after the first fault is not modelled further.        *)
(***************************************************************************)
EXTENDS Integers, FiniteSets, Sequences, TLC

(* ------------------------------ constants ------------------------------ *)

WSIZE == 8
DSIZE == 2 * WSIZE
CHUNKSIZE == 4096
ALIGN == 16
NUM == 16
NULL == 0

MAX(x, y) == IF x > y THEN x ELSE y

\* memlib: address of the first byte mem_sbrk hands out (16-byte aligned).
HeapBase == 1048576

\* memlib: the most bytes mem_sbrk hands out in total.
MaxHeap == 9000

\* Global variables of mm.c, as mm_init leaves them.
free_lists == HeapBase
heap_listp == HeapBase + NUM * DSIZE + 2 * WSIZE

(* ------------------------------- memory -------------------------------- *)

\* The element of a one-element set.
Val(S) == CHOOSE r \in S : TRUE

\* Bind([x \in {e} |-> body]) is body with x bound to the value of e, which is
\* computed once, before body: the sequencing of the C statements.
Bind(f) == Val({g[Val(DOMAIN g)] : g \in {f}})

\* size | alloc for alloc in {0, 1}
PACK(size, alloc) == IF alloc = 1 /\ size % 2 = 1 THEN size ELSE size + alloc

InHeap(h, p) == p >= HeapBase /\ p + WSIZE <= h.brk

\* Records that the word at p was accessed.
Touch(h, p) == IF InHeap(h, p) THEN h ELSE [h EXCEPT !.fault = TRUE]

GET(h, p) ==
    IF p \in DOMAIN h.mem THEN h.mem[p] ELSE h.junk[((p \div WSIZE) % 2) + 1]

PUT(h, p, val) ==
    IF InHeap(h, p) THEN [h EXCEPT !.mem = (p :> val) @@ @]
    ELSE [h EXCEPT !.fault = TRUE]

\* GET(p) & ~(DSIZE - 1)
GET_SIZE(h, p) == Bind([w \in {GET(h, p)} |-> w - (w % DSIZE)])
\* GET(p) & 0x1
GET_ALLOC(h, p) == GET(h, p) % 2

HDRP(bp) == bp - WSIZE
FTRP(h, bp) == bp + GET_SIZE(h, HDRP(bp)) - DSIZE
NEXT_BLKP(h, bp) == bp + GET_SIZE(h, bp - WSIZE)
PREV_BLKP(h, bp) == bp - GET_SIZE(h, bp - DSIZE)

\* struct Node { next; prev; }
NodeNext(bp) == bp
NodePrev(bp) == bp + WSIZE

\* mem_sbrk(incr): the old break, or -1 when the heap cannot grow.
mem_sbrk(h, incr) ==
    IF h.brk + incr > HeapBase + MaxHeap
    THEN [h |-> h, p |-> -1]
    ELSE [h |-> [h EXCEPT !.brk = @ + incr], p |-> h.brk]

(* --------------------------- free-list index --------------------------- *)

find_explicit(size) ==
    IF size <= 64 THEN 0
    ELSE IF size <= 128 THEN 1
    ELSE IF size <= 256 THEN 2
    ELSE IF size <= 500 THEN 3
    ELSE IF size <= 750 THEN 4
    ELSE IF size <= 1000 THEN 5
    ELSE IF size <= 2000 THEN 6
    ELSE IF size <= 3000 THEN 7
    ELSE IF size <= 4000 THEN 8
    ELSE IF size <= 5000 THEN 9
    ELSE IF size <= 6000 THEN 10
    ELSE IF size <= 7000 THEN 11
    ELSE IF size <= 8000 THEN 12
    ELSE IF size <= 9000 THEN 13
    ELSE 14

ListHead(i) == free_lists + i * DSIZE

deleteBlock(h, bp) ==
    Bind([ha \in {Touch(h, NodePrev(bp))} |->
    Bind([h0 \in {Touch(ha, NodeNext(bp))} |->
    \* copy_bp->prev->next = copy_bp->next;
    Bind([h1 \in {PUT(h0, NodeNext(GET(h0, NodePrev(bp))),
                            GET(h0, NodeNext(bp)))} |->
    \* copy_bp->next->prev = copy_bp->prev;
    PUT(h1, NodePrev(GET(h1, NodeNext(bp))), GET(h1, NodePrev(bp)))])])])

insertBlock(h, bp) ==
    Bind([h0 \in {Touch(h, HDRP(bp))} |->
    Bind([head \in {ListHead(find_explicit(GET_SIZE(h0, HDRP(bp))))} |->
    Bind([temp \in {GET(h0, NodeNext(head))} |->
    Bind([hb \in {Touch(h0, NodeNext(head))} |->
    Bind([h1 \in {PUT(hb, NodeNext(head), bp)} |->
    Bind([h2 \in {PUT(h1, NodePrev(temp), bp)} |->
    Bind([h3 \in {PUT(h2, NodePrev(bp), head)} |->
    PUT(h3, NodeNext(bp), temp)])])])])])])])

(* ------------------------------ the engine ----------------------------- *)

\* Cases 2, 3 and 4 of coalesce, on a heap h0 and a block bp of size size.
coalesce_case2(h0, bp, size) ==
    Bind([h1 \in {deleteBlock(h0, NEXT_BLKP(h0, bp))} |->
    Bind([size2 \in {size + GET_SIZE(h1, HDRP(NEXT_BLKP(h1, bp)))} |->
    Bind([h2 \in {PUT(h1, HDRP(bp), PACK(size2, 0))} |->
    Bind([h3 \in {PUT(h2, FTRP(h2, bp), PACK(size2, 0))} |->
    [h |-> insertBlock(h3, bp), bp |-> bp]])])])])

coalesce_case3(h0, bp, size) ==
    Bind([size2 \in {size + GET_SIZE(h0, HDRP(PREV_BLKP(h0, bp)))} |->
    Bind([h1 \in {deleteBlock(h0, PREV_BLKP(h0, bp))} |->
    Bind([h2 \in {PUT(h1, FTRP(h1, bp), PACK(size2, 0))} |->
    Bind([h3 \in {PUT(h2, HDRP(PREV_BLKP(h2, bp)), PACK(size2, 0))} |->
    Bind([bp2 \in {PREV_BLKP(h3, bp)} |->
    [h |-> insertBlock(h3, bp2), bp |-> bp2]])])])])])

\* Case 4 of coalesce merging with the next block only.
coalesce_case4_nextonly(h0, bp, size) == coalesce_case2(h0, bp, size)

coalesce_case4(h0, bp, size) ==
    Bind([h1 \in {deleteBlock(h0, NEXT_BLKP(h0, bp))} |->
    Bind([h2 \in {deleteBlock(h1, PREV_BLKP(h1, bp))} |->
    Bind([size2 \in {size + GET_SIZE(h2, HDRP(PREV_BLKP(h2, bp)))
              + GET_SIZE(h2, FTRP(h2, NEXT_BLKP(h2, bp)))} |->
    Bind([h3 \in {PUT(h2, HDRP(PREV_BLKP(h2, bp)), PACK(size2, 0))} |->
    Bind([h4 \in {PUT(h3, FTRP(h3, NEXT_BLKP(h3, bp)), PACK(size2, 0))} |->
    Bind([bp2 \in {PREV_BLKP(h4, bp)} |->
    [h |-> insertBlock(h4, bp2), bp |-> bp2]])])])])])])

\* Returns [h, bp]: the heap and the address of the coalesced block.
coalesce(h, bp) ==
    Bind([ha \in {Touch(h, HDRP(bp))} |->
    Bind([hb \in {Touch(ha, bp - DSIZE)} |->
    Bind([h0 \in {Touch(hb, HDRP(NEXT_BLKP(hb, bp)))} |->
    Bind([size \in {GET_SIZE(h0, HDRP(bp))} |->
    Bind([prev_alloc \in {GET_ALLOC(h0, FTRP(h0, PREV_BLKP(h0, bp))) = 1} |->
    Bind([next_alloc \in {GET_ALLOC(h0, HDRP(NEXT_BLKP(h0, bp))) = 1} |->
        IF prev_alloc /\ next_alloc THEN
            \* Case 1
            [h |-> insertBlock(h0, bp), bp |-> bp]
        ELSE IF prev_alloc /\ ~next_alloc THEN coalesce_case2(h0, bp, size)
        ELSE IF ~prev_alloc /\ next_alloc THEN coalesce_case3(h0, bp, size)
        ELSE coalesce_case4(h0, bp, size)])])])])])])

\* Returns [h, bp]; bp = NULL when mem_sbrk fails.
extend_heap(h, words) ==
    Bind([size \in {IF words % 2 = 1 THEN (words + 1) * WSIZE
                     ELSE words * WSIZE} |->
    Bind([r \in {mem_sbrk(h, size)} |->
        IF r.p = -1 THEN [h |-> h, bp |-> NULL]
        ELSE
        Bind([h1 \in {PUT(r.h, HDRP(r.p), PACK(size, 0))} |->
        Bind([h2 \in {PUT(h1, FTRP(h1, r.p), PACK(size, 0))} |->
        Bind([h3 \in {PUT(h2, HDRP(NEXT_BLKP(h2, r.p)), PACK(0, 1))} |->
        coalesce(h3, r.p)])])])])])

\* The inner loop of find_fit returning the last fit of the list.
RECURSIVE find_fit_list_last(_, _, _, _)
find_fit_list_last(h, temp, bp, asize) ==
    IF bp = temp THEN NULL
    ELSE Bind([rest \in {find_fit_list_last(h, temp, GET(h, NodeNext(bp)),
                                            asize)} |->
              IF rest # NULL THEN rest
              ELSE IF asize <= GET_SIZE(h, HDRP(bp)) THEN bp
              ELSE NULL])

\* The inner loop of find_fit: first fit in one list, from node bp on.
RECURSIVE find_fit_list(_, _, _, _)
find_fit_list(h, temp, bp, asize) ==
    IF bp = temp THEN NULL
    ELSE IF asize <= GET_SIZE(h, HDRP(bp)) THEN bp
    ELSE Bind([next \in {GET(h, NodeNext(bp))} |->
              find_fit_list(h, temp, next, asize)])

\* The outer loop of find_fit: lists i .. NUM - 1.
RECURSIVE find_fit_from(_, _, _)
find_fit_from(h, i, asize) ==
    IF i >= NUM THEN NULL
    ELSE Bind([bp \in {find_fit_list(h, ListHead(i),
                                     GET(h, NodeNext(ListHead(i))), asize)} |->
                  IF bp # NULL THEN bp ELSE find_fit_from(h, i + 1, asize)])

\* find_fit that searches the list of asize's own class only.
find_fit_oneclass(h, asize) ==
    Bind([head \in {ListHead(find_explicit(asize))} |->
    find_fit_list(h, head, GET(h, NodeNext(head)), asize)])

find_fit(h, asize) == find_fit_from(h, find_explicit(asize), asize)

place(h, bp, asize) ==
    Bind([h0 \in {Touch(h, HDRP(bp))} |->
    Bind([csize \in {GET_SIZE(h0, HDRP(bp))} |->
        IF csize - asize >= ALIGN + DSIZE THEN
            Bind([h1 \in {PUT(h0, HDRP(bp), PACK(asize, 1))} |->
            Bind([h2 \in {PUT(h1, FTRP(h1, bp), PACK(asize, 1))} |->
            Bind([h3 \in {deleteBlock(h2, bp)} |->
            Bind([nbp \in {NEXT_BLKP(h3, bp)} |->
            Bind([h4 \in {PUT(h3, HDRP(nbp), PACK(csize - asize, 0))} |->
            Bind([h5 \in {PUT(h4, FTRP(h4, nbp), PACK(csize - asize, 0))} |->
            insertBlock(h5, nbp)])])])])])])
        ELSE
            Bind([h1 \in {PUT(h0, HDRP(bp), PACK(csize, 1))} |->
            Bind([h2 \in {PUT(h1, FTRP(h1, bp), PACK(csize, 1))} |->
            deleteBlock(h2, bp)])])])])

\* The loop of mm_init that makes every list empty, for lists i .. NUM - 1.
RECURSIVE init_lists(_, _)
init_lists(h, i) ==
    IF i >= NUM THEN h
    ELSE Bind([h1 \in {PUT(h, NodeNext(ListHead(i)), ListHead(i))} |->
         Bind([h2 \in {PUT(h1, NodePrev(ListHead(i)), ListHead(i))} |->
         init_lists(h2, i + 1)])])

\* mm_init with the alignment padding word left out.
mm_init_nopad(h) ==
    Bind([r1 \in {mem_sbrk(h, NUM * DSIZE)} |->
        IF r1.p = -1 THEN [h |-> h, ret |-> -1]
        ELSE
        Bind([h1 \in {init_lists(r1.h, 0)} |->
        Bind([r2 \in {mem_sbrk(h1, 3 * WSIZE)} |->
            IF r2.p = -1 THEN [h |-> h1, ret |-> -1]
            ELSE
            Bind([h3 \in {PUT(r2.h, r2.p, PACK(DSIZE, 1))} |->
            Bind([h4 \in {PUT(h3, r2.p + 1 * WSIZE, PACK(DSIZE, 1))} |->
            Bind([h5 \in {PUT(h4, r2.p + 2 * WSIZE, PACK(0, 1))} |->
            Bind([r3 \in {extend_heap(h5, CHUNKSIZE \div WSIZE)} |->
            [h |-> r3.h, ret |-> IF r3.bp = NULL THEN -1 ELSE 0]])])])])])])])

\* Returns [h, ret]: ret = 0 on success, -1 otherwise.
mm_init(h) ==
    Bind([r1 \in {mem_sbrk(h, NUM * DSIZE)} |->
        IF r1.p = -1 THEN [h |-> h, ret |-> -1]
        ELSE
        Bind([h1 \in {init_lists(r1.h, 0)} |->
        Bind([r2 \in {mem_sbrk(h1, 4 * WSIZE)} |->
            IF r2.p = -1 THEN [h |-> h1, ret |-> -1]
            ELSE
            Bind([h2 \in {PUT(r2.h, r2.p, 0)} |->
            Bind([h3 \in {PUT(h2, r2.p + 1 * WSIZE, PACK(DSIZE, 1))} |->
            Bind([h4 \in {PUT(h3, r2.p + 2 * WSIZE, PACK(DSIZE, 1))} |->
            Bind([h5 \in {PUT(h4, r2.p + 3 * WSIZE, PACK(0, 1))} |->
            Bind([r3 \in {extend_heap(h5, CHUNKSIZE \div WSIZE)} |->
            [h |-> r3.h, ret |-> IF r3.bp = NULL THEN -1 ELSE 0]])])])])])])])])

\* The adjusted block size mm_malloc computes.
malloc_asize(size) ==
    IF size <= DSIZE THEN 2 * DSIZE
    ELSE ALIGN * ((size + (ALIGN - 1)) \div ALIGN) + DSIZE

\* Returns [h, ret].
mm_malloc(h, size) ==
    IF size = 0 THEN [h |-> h, ret |-> NULL]
    ELSE
    Bind([asize \in {malloc_asize(size)} |->
    Bind([bp \in {find_fit(h, asize)} |->
        IF bp # NULL THEN [h |-> place(h, bp, asize), ret |-> bp]
        ELSE
        Bind([r \in {extend_heap(h, (asize + 2 * WSIZE) \div WSIZE)} |->
            IF r.bp = NULL THEN [h |-> r.h, ret |-> NULL]
            ELSE [h |-> place(r.h, r.bp, asize), ret |-> r.bp]])])])

\* mm_free that marks the block free but does not put it on a list.
mm_free_nolist(h, bp) ==
    IF bp = NULL THEN h
    ELSE
    Bind([size \in {GET_SIZE(h, HDRP(bp))} |->
    Bind([h1 \in {PUT(h, HDRP(bp), PACK(size, 0))} |->
    PUT(h1, FTRP(h1, bp), PACK(size, 0))])])

mm_free(h, bp) ==
    IF bp = NULL THEN h
    ELSE
    Bind([h0 \in {Touch(h, HDRP(bp))} |->
    Bind([size \in {GET_SIZE(h0, HDRP(bp))} |->
    Bind([h1 \in {PUT(h0, HDRP(bp), PACK(size, 0))} |->
    Bind([h2 \in {PUT(h1, FTRP(h1, bp), PACK(size, 0))} |->
    coalesce(h2, bp).h])])])])

\* memcpy(dst, src, n), word by word; a word never written stays unwritten.
memcpy(h, dst, src, n) ==
    Bind([offs \in {{k * WSIZE : k \in 0 .. (n \div WSIZE) - 1}} |->
    Bind([h0 \in {IF \A o \in offs : InHeap(h, dst + o) /\ InHeap(h, src + o)
                  THEN h ELSE [h EXCEPT !.fault = TRUE]} |->
    Bind([defd \in {{dst + o : o \in {x \in offs : /\ src + x \in DOMAIN h.mem
                                                  /\ InHeap(h, dst + x)}}} |->
    Bind([dsts \in {{dst + o : o \in offs}} |->
    [h0 EXCEPT !.mem = [a \in (DOMAIN @ \ dsts) \cup defd |->
                           IF a \in dsts THEN @[src + (a - dst)] ELSE @[a]]]
    ])])])])

\* The adjusted block size mm_realloc computes.
realloc_asize(size) ==
    IF size <= DSIZE THEN 2 * DSIZE
    ELSE DSIZE * ((size + DSIZE + (DSIZE - 1)) \div DSIZE)

\* The in-place branch of mm_realloc.
realloc_in_place(h1, ptr, oldsize, next_size) ==
    Bind([h2 \in {deleteBlock(h1, NEXT_BLKP(h1, ptr))} |->
    Bind([h3 \in {PUT(h2, HDRP(ptr), PACK(oldsize + next_size, 1))} |->
    Bind([h4 \in {PUT(h3, FTRP(h3, ptr), PACK(oldsize + next_size, 1))} |->
    [h |-> h4, ret |-> ptr]])])])

\* realloc_move with the old block freed before the new one is allocated.
realloc_move_freefirst(h1, ptr, oldsize, asize) ==
    Bind([h2 \in {mm_free(h1, ptr)} |->
    Bind([r \in {mm_malloc(h2, MAX(oldsize, asize) * 10)} |->
        IF r.ret = NULL THEN [h |-> r.h, ret |-> NULL]
        ELSE [h |-> memcpy(r.h, r.ret, ptr, oldsize), ret |-> r.ret]])])

\* The allocate-copy-free branch of mm_realloc.
realloc_move(h1, ptr, oldsize, asize) ==
    Bind([r \in {mm_malloc(h1, MAX(oldsize, asize) * 10)} |->
        IF r.ret = NULL THEN [h |-> r.h, ret |-> NULL]
        ELSE Bind([h2 \in {memcpy(r.h, r.ret, ptr, oldsize)} |->
             [h |-> mm_free(h2, ptr), ret |-> r.ret]])])

\* mm_realloc with the block kept, not freed, when size is 0.
mm_realloc_keep(h, ptr, size) ==
    Bind([h0 \in {Touch(h, HDRP(ptr))} |->
    Bind([oldsize \in {GET_SIZE(h0, HDRP(ptr))} |->
    Bind([asize \in {realloc_asize(size)} |->
        IF size = 0 THEN [h |-> h0, ret |-> NULL]
        ELSE IF ptr = NULL THEN mm_malloc(h0, size)
        ELSE IF asize <= oldsize THEN [h |-> h0, ret |-> ptr]
        ELSE
        Bind([h1 \in {Touch(h0, NEXT_BLKP(h0, ptr))} |->
        Bind([next_size \in {GET_SIZE(h1, NEXT_BLKP(h1, ptr))} |->
            IF GET_ALLOC(h1, NEXT_BLKP(h1, ptr)) = 0
               /\ oldsize + next_size <= asize
            THEN realloc_in_place(h1, ptr, oldsize, next_size)
            ELSE realloc_move(h1, ptr, oldsize, asize)])])])])])

\* Returns [h, ret].
mm_realloc(h, ptr, size) ==
    Bind([h0 \in {Touch(h, HDRP(ptr))} |->
    Bind([oldsize \in {GET_SIZE(h0, HDRP(ptr))} |->
    Bind([asize \in {realloc_asize(size)} |->
        IF size = 0 THEN [h |-> mm_free(h0, ptr), ret |-> NULL]
        ELSE IF ptr = NULL THEN mm_malloc(h0, size)
        ELSE IF asize <= oldsize THEN [h |-> h0, ret |-> ptr]
        ELSE
        Bind([h1 \in {Touch(h0, NEXT_BLKP(h0, ptr))} |->
        Bind([next_size \in {GET_SIZE(h1, NEXT_BLKP(h1, ptr))} |->
            IF GET_ALLOC(h1, NEXT_BLKP(h1, ptr)) = 0
               /\ oldsize + next_size <= asize
            THEN realloc_in_place(h1, ptr, oldsize, next_size)
            ELSE realloc_move(h1, ptr, oldsize, asize)])])])])])

(* --------------------------- the state machine ------------------------- *)

\* Bounds of the model.
MaxCalls == 4
MaxStores == 2

\* Request sizes (bytes) the caller passes to mm_malloc and mm_realloc.
Sizes == {0, 16, 40, 4040}

\* Words the caller stores into its payloads, besides its own pointers.
Words == {0, 16, 32}

\* Values a load of a never-written word may yield (word 0, word 1 of a pair).
Junk == {<<0, 0>>, <<1, 0>>, <<16, free_lists>>}

VARIABLES
    mem,      \* the written words of the heap: address -> value
    brk,      \* mem_brk: the first address past the heap
    pc,       \* "run", or after a fault "segv" (killed) or "ub" (completed)
    live,     \* the caller's allocations, oldest first: <<[p, n], ...>>
    written,  \* addresses of payload words the caller has stored
    last,     \* the last call: [op, p, n, ret]
    ncalls,   \* calls of mm_malloc / mm_free / mm_realloc so far
    nstores   \* caller stores so far

vars == <<mem, brk, pc, live, written, last, ncalls, nstores>>

NoJunk == <<0, 0>>

Heap(j) == [mem |-> mem, brk |-> brk, fault |-> FALSE, junk |-> j]

EmptyHeap == [mem |-> <<>>, brk |-> HeapBase, fault |-> FALSE, junk |-> NoJunk]

Init ==
    \E r \in {mm_init(EmptyHeap)} :
        /\ r.ret = 0
        /\ mem = r.h.mem
        /\ brk = r.h.brk
        /\ pc = "run"
        /\ live = <<>>
        /\ written = {}
        /\ last = [op |-> "init", p |-> NULL, n |-> 0, ret |-> 0]
        /\ ncalls = 0
        /\ nstores = 0

\* The heap after a call, and whether the process survived it.
Land(h) ==
    /\ pc' \in (IF h.fault THEN {"segv", "ub"} ELSE {"run"})
    /\ mem' = IF pc' = "segv" THEN mem ELSE h.mem
    /\ brk' = IF pc' = "segv" THEN brk ELSE h.brk

Remove(seq, i) == SubSeq(seq, 1, i - 1) \o SubSeq(seq, i + 1, Len(seq))

\* Word addresses of the first n bytes at p.
Range(p, n) == {p + k * WSIZE : k \in 0 .. ((n + WSIZE - 1) \div WSIZE) - 1}

Malloc(n) ==
    /\ pc = "run" /\ ncalls < MaxCalls
    /\ \E r \in {mm_malloc(Heap(NoJunk), n)} :
           /\ Land(r.h)
           /\ live' = IF r.ret # NULL THEN Append(live, [p |-> r.ret, n |-> n])
                      ELSE live
           /\ last' = [op |-> "malloc", p |-> NULL, n |-> n, ret |-> r.ret]
    /\ ncalls' = ncalls + 1
    /\ UNCHANGED <<written, nstores>>

Free(i) ==
    /\ pc = "run" /\ ncalls < MaxCalls
    /\ \E h \in {mm_free(Heap(NoJunk), live[i].p)} : Land(h)
    /\ live' = Remove(live, i)
    /\ written' = written \ Range(live[i].p, live[i].n)
    /\ last' = [op |-> "free", p |-> live[i].p, n |-> 0, ret |-> NULL]
    /\ ncalls' = ncalls + 1
    /\ UNCHANGED nstores

Realloc(i, n, j) ==
    /\ pc = "run" /\ ncalls < MaxCalls
    /\ \E p \in {live[i].p} :
       \E r \in {mm_realloc(Heap(j), p, n)}, old \in {Range(p, live[i].n)} :
           /\ Land(r.h)
           /\ live' = IF n = 0 THEN Remove(live, i)
                      ELSE IF r.ret = NULL THEN live
                      ELSE [live EXCEPT ![i] = [p |-> r.ret, n |-> n]]
           /\ written' = IF n = 0 THEN written \ old
                          ELSE IF r.ret = NULL THEN written
                          ELSE (written \ old) \cup
                               {r.ret + (a - p) : a \in written \cap Range(p, n)}
           /\ last' = [op |-> "realloc", p |-> p, n |-> n, ret |-> r.ret]
    /\ ncalls' = ncalls + 1
    /\ UNCHANGED nstores

\* The caller stores word w at byte offset o of its allocation live[i].
Store(i, o, w) ==
    /\ pc = "run" /\ nstores < MaxStores
    /\ o + WSIZE <= live[i].n
    /\ mem' = (live[i].p + o :> w) @@ mem
    /\ written' = written \cup {live[i].p + o}
    /\ nstores' = nstores + 1
    /\ UNCHANGED <<brk, pc, live, last, ncalls>>

Next ==
    \/ \E n \in Sizes : Malloc(n)
    \/ \E i \in 1 .. Len(live) : Free(i)
    \/ \E i \in 1 .. Len(live), n \in Sizes, j \in Junk : Realloc(i, n, j)
    \/ \E i \in 1 .. Len(live), w \in Words : Store(i, 0, w)
    \/ \E i, k \in 1 .. Len(live) : Store(i, WSIZE, live[k].p)

Spec == Init /\ [][Next]_vars

(* ------------------- longer runs of mm_malloc and mm_free -------------- *)

\* A second caller, which only allocates and frees, but makes more calls.
MaxOps == 6

\* Request sizes (bytes) this caller passes to mm_malloc.
SeqSizes == {40, 50, 100, 4000}

MallocSeq(n) ==
    /\ pc = "run" /\ ncalls < MaxOps
    /\ \E r \in {mm_malloc(Heap(NoJunk), n)} :
           /\ Land(r.h)
           /\ live' = IF r.ret # NULL THEN Append(live, [p |-> r.ret, n |-> n])
                      ELSE live
           /\ last' = [op |-> "malloc", p |-> NULL, n |-> n, ret |-> r.ret]
    /\ ncalls' = ncalls + 1
    /\ UNCHANGED <<written, nstores>>

FreeSeq(i) ==
    /\ pc = "run" /\ ncalls < MaxOps
    /\ \E h \in {mm_free(Heap(NoJunk), live[i].p)} : Land(h)
    /\ live' = Remove(live, i)
    /\ last' = [op |-> "free", p |-> live[i].p, n |-> 0, ret |-> NULL]
    /\ ncalls' = ncalls + 1
    /\ UNCHANGED <<written, nstores>>

NextSeq ==
    \/ \E n \in SeqSizes : MallocSeq(n)
    \/ \E i \in 1 .. Len(live) : FreeSeq(i)

SpecSeq == Init /\ [][NextSeq]_vars

(* ------------------------- reading the heap back ----------------------- *)

\* The heap as it stands, read without an environment: unwritten words are 0.
Cur == Heap(NoJunk)

\* A call has returned (the process was not killed inside it).
Returned == pc # "segv"

BlockSize(bp) == GET_SIZE(Cur, HDRP(bp))
PayloadSize(bp) == BlockSize(bp) - DSIZE

\* checkheap's walk: the block pointers from bp on, by adding header sizes,
\* up to the first header of size 0 or the first header outside the heap.
RECURSIVE Walk(_, _)
Walk(bp, fuel) ==
    IF fuel = 0 \/ ~InHeap(Cur, HDRP(bp)) \/ HDRP(bp) \notin DOMAIN mem
       \/ BlockSize(bp) = 0
    THEN <<>>
    ELSE <<bp>> \o Walk(bp + BlockSize(bp), fuel - 1)

\* Every block after the prologue.  (No block is smaller than DSIZE, so the
\* heap holds fewer than MaxHeap \div DSIZE + 1 of them.)
Blocks == Walk(heap_listp + DSIZE, MaxHeap \div DSIZE + 1)

\* checkheap's walk read in a heap h: the set of block pointers from bp on.
RECURSIVE WalkIn(_, _, _)
WalkIn(h, bp, fuel) ==
    IF fuel = 0 \/ ~InHeap(h, HDRP(bp)) \/ HDRP(bp) \notin DOMAIN h.mem
       \/ GET_SIZE(h, HDRP(bp)) = 0
    THEN {}
    ELSE {bp} \cup WalkIn(h, bp + GET_SIZE(h, HDRP(bp)), fuel - 1)

(* -------------------------------- claims ------------------------------- *)

\* C1 (Disjointness): the payload ranges [p, p + payload size) of any two
\* live allocations do not overlap, after any sequence of calls.
C1_Disjoint ==
    Returned =>
        \A i, k \in 1 .. Len(live) :
            i < k => \/ live[i].p + PayloadSize(live[i].p) <= live[k].p
                     \/ live[k].p + PayloadSize(live[k].p) <= live[i].p

\* C2 (Correct sizing): a successful mm_malloc(n) or mm_realloc(p, n), n > 0,
\* returns an allocated block whose payload holds at least n bytes.
C2_Sized ==
    (Returned /\ last.op \in {"malloc", "realloc"} /\ last.n > 0
        /\ last.ret # NULL)
    => /\ GET_ALLOC(Cur, HDRP(last.ret)) = 1
       /\ PayloadSize(last.ret) >= last.n

\* C3 (Alignment): every pointer mm_malloc or mm_realloc returns, and every
\* block's payload address in the heap, is a multiple of ALIGN.
C3_Aligned ==
    Returned =>
        /\ last.ret % ALIGN = 0
        /\ \A x \in 1 .. Len(Blocks) : Blocks[x] % ALIGN = 0

\* C3 witness: a call returned a pointer into a heap that mm_malloc had to
\* extend, with blocks before it.
C3_Witness ==
    /\ pc = "run" /\ last.op = "malloc" /\ last.ret # NULL
    /\ brk > HeapBase + NUM * DSIZE + 4 * WSIZE + CHUNKSIZE
    /\ Len(Blocks) >= 3

\* C4 (Payload durability): a call whose pointer argument is p leaves every
\* word the caller stored into another live allocation q # p unchanged.
C4_Durable ==
    [][(ncalls' = ncalls + 1 /\ pc' # "segv") =>
          \A i \in 1 .. Len(live) :
              live[i].p # last'.p =>
                  \A a \in written \cap Range(live[i].p, live[i].n) :
                      a \in DOMAIN mem' /\ mem'[a] = mem[a]]_vars

\* The calls the caller can make in the current state.
Calls ==
    {[op |-> "malloc", i |-> 0, n |-> n, j |-> NoJunk] : n \in Sizes}
    \cup {[op |-> "free", i |-> i, n |-> 0, j |-> NoJunk] : i \in 1 .. Len(live)}
    \cup {[op |-> "realloc", i |-> i, n |-> n, j |-> j] :
              i \in 1 .. Len(live), n \in Sizes, j \in Junk}

\* The call c made on heap h: [h, ret].
Do(h, c) ==
    IF c.op = "malloc" THEN mm_malloc([h EXCEPT !.junk = c.j], c.n)
    ELSE IF c.op = "free"
    THEN [h |-> mm_free([h EXCEPT !.junk = c.j], live[c.i].p), ret |-> NULL]
    ELSE mm_realloc([h EXCEPT !.junk = c.j], live[c.i].p, c.n)

\* Where the word the caller stored at address a is after call c returned ret.
Moved(c, ret, a) ==
    IF c.op = "realloc" /\ ret # NULL /\ a \in Range(live[c.i].p, live[c.i].n)
    THEN ret + (a - live[c.i].p)
    ELSE a

\* C5 (Payload independence): whatever word the caller stored at an address
\* of a live payload, every call returns the same pointer, makes the same
\* accesses inside the heap region and leaves the same headers, footers and
\* free-list links (every word but the stored one).
C5_Independent ==
    pc = "run" =>
        \A c \in Calls, a \in written, w \in Words \cup {1} :
            LET ra == Do(Cur, c)
                rb == Do([Cur EXCEPT !.mem = (a :> w) @@ @], c)
                at == Moved(c, ra.ret, a)
            IN  /\ ra.ret = rb.ret
                /\ ra.h.fault = rb.h.fault
                /\ ra.h.brk = rb.h.brk
                /\ DOMAIN ra.h.mem \ {at} = DOMAIN rb.h.mem \ {at}
                /\ \A x \in DOMAIN ra.h.mem \ {at} : ra.h.mem[x] = rb.h.mem[x]

\* C6 (Resize growth preserves data): when mm_realloc(p, n) with n larger
\* than the old payload succeeds, every payload word of p before the call is
\* at the same offset from the returned pointer after it.
C6_GrowKeeps ==
    [][(ncalls' = ncalls + 1 /\ pc' # "segv" /\ last'.op = "realloc"
          /\ last'.ret # NULL /\ last'.n > PayloadSize(last'.p)) =>
          \A a \in Range(last'.p, PayloadSize(last'.p)) \cap DOMAIN mem :
              LET b == last'.ret + (a - last'.p)
              IN  b \in DOMAIN mem' /\ mem'[b] = mem[a]]_vars

IsFree(bp) == GET_ALLOC(Cur, HDRP(bp)) = 0

\* A block of heap h is free and so is the block that follows it.
FreePair(h) ==
    \E bp \in WalkIn(h, heap_listp + DSIZE, MaxHeap \div DSIZE + 1) :
        /\ GET_ALLOC(h, HDRP(bp)) = 0
        /\ bp + GET_SIZE(h, HDRP(bp))
               \in WalkIn(h, heap_listp + DSIZE, MaxHeap \div DSIZE + 1)
        /\ GET_ALLOC(h, HDRP(bp + GET_SIZE(h, HDRP(bp)))) = 0

\* C7 (Coalescing completeness): after every call, no two physically
\* adjacent blocks are both free: not in the heap as it is, and not in the
\* heap that any call the caller can make next returns with.
C7_Coalesced ==
    /\ Returned => ~FreePair(Cur)
    /\ pc = "run" =>
           \A c \in Calls : ~FreePair(Do(Cur, c).h)

\* The nodes of list i, from its head round to its head again.
RECURSIVE ListFrom(_, _, _)
ListFrom(head, bp, fuel) ==
    IF bp = head \/ fuel = 0 \/ bp \notin DOMAIN mem THEN {}
    ELSE {bp} \cup ListFrom(head, GET(Cur, NodeNext(bp)), fuel - 1)

ListNodes(i) ==
    ListFrom(ListHead(i), GET(Cur, NodeNext(ListHead(i))), MaxHeap \div DSIZE + 1)

BlockSet == {Blocks[x] : x \in 1 .. Len(Blocks)}

\* C8 (Free-list consistency): after every call, every free block is on
\* exactly one size-class list, the one find_explicit gives for its size, and
\* no list holds anything but free blocks.
C8_Indexed ==
    Returned =>
        /\ \A b \in BlockSet :
              IsFree(b) =>
                  \A i \in 0 .. NUM - 1 :
                      (b \in ListNodes(i)) <=> (i = find_explicit(BlockSize(b)))
        /\ \A i \in 0 .. NUM - 1 :
              \A b \in ListNodes(i) : b \in BlockSet /\ IsFree(b)

\* The address the walk over the blocks stops at.
WalkEnd ==
    IF Blocks = <<>> THEN heap_listp + DSIZE
    ELSE Blocks[Len(Blocks)] + BlockSize(Blocks[Len(Blocks)])

\* C9 (Block tiling): after every call, the walk from the first block by
\* header sizes ends exactly at the epilogue header (size 0, allocated) in
\* the last word of the heap.
C9_Tiled ==
    Returned =>
        /\ HDRP(WalkEnd) = brk - WSIZE
        /\ HDRP(WalkEnd) \in DOMAIN mem
        /\ mem[HDRP(WalkEnd)] = PACK(0, 1)

\* C10 (Boundary-tag agreement): after every call, every block's header word
\* equals its footer word.
C10_Tags ==
    Returned =>
        \A b \in BlockSet :
            /\ FTRP(Cur, b) \in DOMAIN mem
            /\ mem[HDRP(b)] = mem[FTRP(Cur, b)]

\* C11 (Exhaustion leaves the heap unchanged): when mem_sbrk fails during
\* mm_malloc(n) or mm_realloc(p, n), n > 0, the call returns NULL (the only
\* way either returns NULL for n > 0) and every word of the heap, the heap
\* end and the caller's allocations are as before the call.
C11_ExhaustionKeeps ==
    [][(ncalls' = ncalls + 1 /\ pc' # "segv"
          /\ last'.op \in {"malloc", "realloc"} /\ last'.n > 0
          /\ last'.ret = NULL) =>
          mem' = mem /\ brk' = brk /\ live' = live]_vars

\* C11 witness: mm_realloc of a live block has failed for lack of memory, and
\* the block is still allocated.
C11_Witness ==
    /\ pc = "run" /\ last.op = "realloc" /\ last.n > 0 /\ last.ret = NULL
    /\ \E i \in 1 .. Len(live) :
           live[i].p = last.p /\ GET_ALLOC(Cur, HDRP(last.p)) = 1

\* C12 (Null-pointer resize is malloc): for every size n, mm_realloc(NULL, n)
\* returns the pointer mm_malloc(n) returns from the same heap, leaves the
\* same heap, and makes no access outside the heap, as mm_malloc makes none.
C12_NullIsMalloc ==
    pc = "run" =>
        \A n \in Sizes, j \in Junk :
            mm_realloc(Heap(j), NULL, n) = mm_malloc(Heap(j), n)

\* C13 (Zero-size resize is release): for a live pointer p, mm_realloc(p, 0)
\* returns NULL and leaves the heap (every word of it, so headers, footers
\* and the lists with their order) as mm_free(p) leaves it from the same
\* state.
C13_ZeroIsFree ==
    [][(ncalls' = ncalls + 1 /\ last'.op = "realloc" /\ last'.n = 0) =>
          LET h == mm_free(Cur, last'.p)
          IN  /\ last'.ret = NULL
              /\ pc' = "run"
              /\ mem' = h.mem
              /\ brk' = h.brk]_vars

\* C13 witness: mm_realloc(p, 0) has returned, p lies in a free block, and
\* another allocation is still live.
C13_Witness ==
    /\ pc = "run" /\ last.op = "realloc" /\ last.n = 0 /\ last.ret = NULL
    /\ Len(live) >= 1
    /\ \E b \in BlockSet :
           IsFree(b) /\ b <= last.p /\ last.p < b + BlockSize(b)

\* The heap after mm_malloc(100), mm_malloc(50) and mm_free of the first, on
\* a fresh heap: the free block at the heap's start has the adjusted size of
\* 100, and the one live allocation, of 50 bytes, follows it.
C14_Scenario ==
    /\ pc = "run" /\ ncalls = 3 /\ last.op = "free"
    /\ last.p = heap_listp + DSIZE
    /\ IsFree(last.p) /\ BlockSize(last.p) = malloc_asize(100)
    /\ Len(live) = 1 /\ live[1].n = 50
    /\ live[1].p = last.p + malloc_asize(100)

\* C14 (Free-block reuse before growth): mm_malloc(n) calls mem_sbrk (it
\* moves the heap end, or fails for want of memory) only if no free block
\* has at least the adjusted size of n; and after mm_malloc(100),
\* mm_malloc(50), mm_free of the first on a fresh heap, mm_malloc(40) returns
\* an address inside the freed block and does not move the heap end.
C14_ReuseFirst ==
    [][(ncalls' = ncalls + 1 /\ last'.op = "malloc") =>
          /\ (brk' # brk \/ (last'.n > 0 /\ last'.ret = NULL)) =>
                 \A b \in BlockSet :
                     IsFree(b) => BlockSize(b) < malloc_asize(last'.n)
          /\ (C14_Scenario /\ last'.n = 40) =>
                 /\ last.p <= last'.ret
                 /\ last'.ret < last.p + malloc_asize(100)
                 /\ brk' = brk]_vars

\* C14 witness: the fourth call of the scenario, mm_malloc(40), has returned
\* the address of the freed first block.
C14_Witness ==
    /\ pc = "run" /\ ncalls = 4 /\ last.op = "malloc" /\ last.n = 40
    /\ last.ret = heap_listp + DSIZE
    /\ live = <<[p |-> heap_listp + DSIZE + malloc_asize(100), n |-> 50],
                [p |-> last.ret, n |-> 40]>>

\* C15 (Allocate/release round trip): when p = mm_malloc(n), n > 0, has
\* succeeded, mm_free(p) followed by mm_malloc(n) returns p again and does
\* not move the heap end (n = 4000 on a fresh heap is one case).
C15_RoundTrip ==
    (pc = "run" /\ last.op = "malloc" /\ last.ret # NULL) =>
        LET h2 == mm_free(Cur, last.ret)
            r3 == mm_malloc(h2, last.n)
        IN  /\ r3.ret = last.ret
            /\ r3.h.brk = brk
            /\ ~r3.h.fault

\* C15 witness: on a fresh heap, mm_malloc(4000), mm_free and mm_malloc(4000)
\* again have been called; the block is where the first call put it and the
\* heap end is where mm_init left it.
C15_Witness ==
    /\ pc = "run" /\ ncalls = 3 /\ last.op = "malloc" /\ last.n = 4000
    /\ last.ret = heap_listp + DSIZE
    /\ live = <<[p |-> last.ret, n |-> 4000]>>
    /\ brk = heap_listp + DSIZE + CHUNKSIZE
    /\ C15_RoundTrip

\* The list nodes, read in a heap h.
RECURSIVE ListFromIn(_, _, _, _)
ListFromIn(h, head, bp, fuel) ==
    IF bp = head \/ fuel = 0 \/ bp \notin DOMAIN h.mem THEN {}
    ELSE {bp} \cup ListFromIn(h, head, GET(h, NodeNext(bp)), fuel - 1)

ListNodesIn(h, i) ==
    ListFromIn(h, ListHead(i), GET(h, NodeNext(ListHead(i))),
               MaxHeap \div DSIZE + 1)

\* In heap h exactly one free block covers the addresses lo .. hi - 1, it is
\* on exactly one list, and no other address in abc is a list entry.
OneFreeBlock(h, lo, hi, abc) ==
    LET blocks == WalkIn(h, heap_listp + DSIZE, MaxHeap \div DSIZE + 1)
        cover == {b \in blocks : /\ GET_ALLOC(h, HDRP(b)) = 0
                                 /\ b <= lo
                                 /\ hi <= b + GET_SIZE(h, HDRP(b))}
    IN  /\ ~h.fault
        /\ Cardinality(cover) = 1
        /\ \A b \in cover :
               Cardinality({i \in 0 .. NUM - 1 : b \in ListNodesIn(h, i)}) = 1
        /\ \A x \in abc \ cover :
               /\ \A i \in 0 .. NUM - 1 : x \notin ListNodesIn(h, i)
               /\ \A b \in blocks : GET_ALLOC(h, HDRP(b)) = 0 => x # b

\* The orders in which three blocks can be released.
Orders3(a, b, c) ==
    {<<a, b, c>>, <<a, c, b>>, <<b, a, c>>, <<b, c, a>>, <<c, a, b>>, <<c, b, a>>}

\* C16 (Triple coalescing): for three physically adjacent allocated blocks
\* A, B, C, after mm_free of all three in any order exactly one free block
\* covers the three ranges, it is on exactly one list, and none of A, B, C
\* is left as a list entry or a free block of its own.
C16_TripleCoalesce ==
    pc = "run" =>
        \A i, j, k \in 1 .. Len(live) :
            LET A == live[i].p
                B == live[j].p
                C == live[k].p
            IN  (NEXT_BLKP(Cur, A) = B /\ NEXT_BLKP(Cur, B) = C) =>
                    \A o \in Orders3(A, B, C) :
                        OneFreeBlock(
                            mm_free(mm_free(mm_free(Cur, o[1]), o[2]), o[3]),
                            A, NEXT_BLKP(Cur, C), {A, B, C})

\* C16 witness: three allocations made one after the other have all been
\* released, the first of them last, and the heap is one free block, on one
\* list.
C16_Witness ==
    /\ pc = "run" /\ ncalls = 6 /\ live = <<>> /\ last.op = "free"
    /\ last.p = heap_listp + DSIZE
    /\ BlockSet = {heap_listp + DSIZE} /\ IsFree(heap_listp + DSIZE)
    /\ Cardinality({i \in 0 .. NUM - 1 : last.p \in ListNodes(i)}) = 1

\* C17 (In-place resize growth): when mm_realloc(p, n), n > 0, needs a larger
\* block than p's, and the physically next block is free by its header and
\* the two sizes together reach the adjusted size, the call returns p with
\* header and footer (current size + next size, allocated).
C17_InPlace ==
    [][(/\ ncalls' = ncalls + 1 /\ pc' # "segv"
        /\ last'.op = "realloc" /\ last'.n > 0
        /\ realloc_asize(last'.n) > BlockSize(last'.p)
        /\ IsFree(NEXT_BLKP(Cur, last'.p))
        /\ BlockSize(last'.p) + BlockSize(NEXT_BLKP(Cur, last'.p))
               >= realloc_asize(last'.n)) =>
          LET both == BlockSize(last'.p) + BlockSize(NEXT_BLKP(Cur, last'.p))
          IN  /\ last'.ret = last'.p
              /\ mem'[HDRP(last'.p)] = PACK(both, 1)
              /\ mem'[last'.p + both - DSIZE] = PACK(both, 1)]_vars

\* C18 (Memory safety of every operation): no call of mm_malloc, mm_free or
\* mm_realloc loads or stores a word outside the region obtained so far
\* from mem_sbrk, [free_lists, brk).
C18_MemorySafe == pc \notin {"segv", "ub"}

\* Sizes at, next to and beyond the boundaries of find_explicit.
ProbeSizes ==
    {0, 1, 32, 64, 65, 128, 129, 256, 257, 500, 501, 750, 751, 1000, 1001}
    \cup {k * 1000 : k \in 2 .. 10} \cup {k * 1000 + 1 : k \in 2 .. 10}
    \cup {100000}

\* The upper boundary of class i, for the classes that have one.
Boundary(i) ==
    IF i = 0 THEN 64 ELSE IF i = 1 THEN 128 ELSE IF i = 2 THEN 256
    ELSE IF i = 3 THEN 500 ELSE IF i = 4 THEN 750 ELSE (i - 4) * 1000

\* C19 (Size classification): find_explicit gives every size one class among
\* the NUM = 16 lists, never a lower class for a larger size, with the
\* boundaries <= 64, <= 128, <= 256, <= 500, <= 750, <= 1000, <= 2000, ...,
\* <= 9000; every one of the 16 lists mm_init has set up in the heap is the
\* class of some size, and every size above 9000 is in the last class,
\* NUM - 1.
C19_Classes ==
    /\ \A s \in ProbeSizes : find_explicit(s) \in 0 .. NUM - 1
    /\ \A s, u \in ProbeSizes : s <= u => find_explicit(s) <= find_explicit(u)
    /\ \A i \in 0 .. 13 :
           /\ find_explicit(Boundary(i)) = i
           /\ find_explicit(Boundary(i) + 1) = i + 1
    /\ \A i \in 0 .. NUM - 1 :
           NodeNext(ListHead(i)) \in DOMAIN mem =>
               \E s \in ProbeSizes : find_explicit(s) = i
    /\ \A s \in ProbeSizes : s > 9000 => find_explicit(s) = NUM - 1

\* The nodes of list i in list order, from the one after the head.
RECURSIVE ListSeqFrom(_, _, _)
ListSeqFrom(head, bp, fuel) ==
    IF bp = head \/ fuel = 0 \/ bp \notin DOMAIN mem THEN <<>>
    ELSE <<bp>> \o ListSeqFrom(head, GET(Cur, NodeNext(bp)), fuel - 1)

ListSeq(i) ==
    ListSeqFrom(ListHead(i), GET(Cur, NodeNext(ListHead(i))),
                MaxHeap \div DSIZE + 1)

\* Adjusted sizes find_fit is asked for.
FitSizes == {malloc_asize(n) : n \in SeqSizes \cup {16, 4080, 9000}}

\* The positions in list i of the blocks of size >= asize.
Fits(i, asize) ==
    {x \in 1 .. Len(ListSeq(i)) : BlockSize(ListSeq(i)[x]) >= asize}

\* The classes from that of asize upwards whose list holds such a block.
FitClasses(asize) ==
    {i \in find_explicit(asize) .. NUM - 1 : Fits(i, asize) # {}}

\* The least element of a non-empty set of numbers.
Least(S) == CHOOSE x \in S : \A y \in S : x <= y

\* The block the claim says find_fit returns.
FirstFit(asize) ==
    IF FitClasses(asize) = {} THEN NULL
    ELSE ListSeq(Least(FitClasses(asize)))[
             Least(Fits(Least(FitClasses(asize)), asize))]

====
